---- MODULE Spec2Model ----
(***************************************************************************)
(* Character loading and activation pipeline of bevy-mixamo (src/main.rs): *)
(* the asset event bridge, the character registry, the loading             *)
(* orchestrator (on_character_data_loaded) and the scene-ready activator   *)
(* (start_idle), together with the asset and scene subsystems they react   *)
(* to.                                                                     *)
(***************************************************************************)
EXTENDS Integers, Sequences, FiniteSets, TLC

(* ------------------------------ bounds --------------------------------- *)

\* largest number of descendants of an instantiated scene
MaxNodes == 3
\* how many times the asset subsystem repeats the load of the definition
MaxReloads == 1
\* longest lifecycle-event stream handed to the bridge in SpecBridge
MaxStream == 3
\* most Load-Complete triggers queued for the orchestrator in SpecDelivery
MaxDeliveries == 2
\* largest number of descendants of a scene in FairSpec
MaxFairNodes == 2
\* most dropdowns spawned in SpecDropdown
MaxDropdowns == 2
\* most options of a dropdown in SpecDropdown
MaxItems == 2

(* ------------------------------ inputs --------------------------------- *)

\* the one CharacterData asset the program loads (main.rs:98)
MutantJson == "characters/mutant.json"
\* the key the program registers (main.rs:103)
MutantId == "mutant"

\* contents the definition file can have
CharacterIds == {"mutant", "ghost"}
ModelPaths == {"models/mutant.glb", "m"}
AnimationNames == {"idle", "walk"}
ClipPaths == {"anims/idle.glb", "a"}

EmptyMap == [x \in {} |-> x]

Put_Remove(m, k, v) == [x \in DOMAIN m \ {k} |-> m[x]]

Put(m, k, v) == [x \in DOMAIN m \cup {k} |-> IF x = k THEN v ELSE m[x]]

AnimationPaths == UNION {[names -> ClipPaths] : names \in SUBSET AnimationNames}

\* iteration orders of a HashMap with key set S
Orders(S) == {o \in [1..Cardinality(S) -> S] : \A i, j \in 1..Cardinality(S) : i # j => o[i] # o[j]}

\* struct CharacterData; keys is the order in which animation_paths iterates,
\* which stays the same for as long as the map is not modified
CharacterData ==
  UNION {{[id |-> i, model_path |-> p, animation_paths |-> m, keys |-> o] : o \in Orders(DOMAIN m)} :
           i \in CharacterIds, p \in ModelPaths, m \in AnimationPaths}

\* variants of AssetEvent<A>
AssetEventKinds == {"Added", "Modified", "Removed", "LoadedWithDependencies"}

\* asset ids an arbitrary lifecycle stream can carry
StreamIds == {MutantJson, "characters/other.json"}

\* Option::None
Absent == [none |-> TRUE]
NoPanic == "none"

(* ------------------------ CharacterData methods ------------------------ *)

model_scene_path_BadSuffix(d) == d.model_path \o "#Scene1"

model_scene_path(d) == d.model_path \o "#Scene0"

animations_Doubled(d) == d.keys \o d.keys

animations_SkipIdle(d) == SelectSeq(d.keys, LAMBDA name : name # "idle")

animations_FirstOnly(d) == SubSeq(d.keys, 1, IF d.keys = <<>> THEN 0 ELSE 1)

\* self.animation_paths.keys()
animations(d) == d.keys

animation_path(d, name) == d.animation_paths[name] \o "#Animation0"

(* ------------------------------ scenes --------------------------------- *)

\* node n and its ancestors
Lineage(parent, n) ==
  LET Up[i \in 0..n] == IF i = 0 THEN {0} ELSE {i} \cup Up[parent[i]]
  IN Up[n]

\* parent[i] is the parent of descendant i; 0 is the scene root placeholder.
\* Descendants are numbered in pre-order, so that every ordered tree of n
\* descendants appears exactly once.
ParentVectors(n) ==
  {p \in [1..n -> 0..n] :
     /\ \A i \in 1..n : p[i] < i
     /\ \A i \in 2..n : p[i] \in Lineage(p, i - 1)}

\* a scene asset: the hierarchy it instantiates and the nodes that carry an
\* AnimationPlayer
Scenes == UNION {[parent : ParentVectors(n), players : SUBSET (1..n)] : n \in 0..MaxNodes}

\* the members of s in ascending order
SortedSeq(s) ==
  CHOOSE q \in [1..Cardinality(s) -> s] : \A i, j \in 1..Cardinality(s) : i < j => q[i] < q[j]

\* the Children component of node n
Children(parent, n) == SortedSeq({i \in DOMAIN parent : parent[i] = n})

\* DescendantIter: a queue that starts with the children of the root; each
\* call of next() takes the head and appends that node's children. Queue[k]
\* is the queue after k calls, and the k-th call yields the head of Queue[k-1]
DescendantIter(parent) ==
  LET Queue[k \in 0..Len(parent)] ==
        IF k = 0 THEN Children(parent, 0)
        ELSE Tail(Queue[k - 1]) \o Children(parent, Head(Queue[k - 1]))
  IN [k \in 1..Len(parent) |-> Head(Queue[k - 1])]

RECURSIVE DepthFirstIter(_, _)
DepthFirstIter(parent, stack) ==
  IF stack = <<>> THEN <<>>
  ELSE <<Head(stack)>> \o DepthFirstIter(parent, Children(parent, Head(stack)) \o Tail(stack))

iter_descendants_ChildrenOnly(parent) == Children(parent, 0)

iter_descendants_DepthFirst(parent) == DepthFirstIter(parent, Children(parent, 0))

\* the hierarchies a scene can instantiate
Hierarchies == UNION {ParentVectors(n) : n \in 0..MaxNodes}

\* the breadth-first order of every hierarchy, worked out once
DescendantOrders == [parent \in Hierarchies |-> DescendantIter(parent)]

\* children.iter_descendants(root): breadth-first over the hierarchy
iter_descendants(parent) == DescendantOrders[parent]

\* a freshly instantiated node
NoAnimation == [stopped |-> TRUE]
NoGraph == 0
FreshNode(scene, n) == [player |-> n \in scene.players, active |-> NoAnimation, graph |-> NoGraph]

(* --------------------------- animation graphs -------------------------- *)

\* AnimationGraph::from_clip: a root node 0 and one clip node 1; the clip
\* node's index is returned
from_clip(clip) == <<[nodes |-> (0 :> "root" @@ 1 :> clip)], 1>>

(* ------------------------------- assets -------------------------------- *)

\* what unwrap_or_default would hand out for a missing definition
DefaultData == [id |-> "", model_path |-> "", animation_paths |-> EmptyMap, keys |-> <<>>]

get_OrDefault(assets, id) ==
  IF id \in DOMAIN assets /\ assets[id] # Absent THEN assets[id] ELSE DefaultData

\* Assets::get(id): the asset, or None when the store does not hold it
get(assets, id) == IF id \in DOMAIN assets THEN assets[id] ELSE Absent

NewCharacter_DropsHandle(data) == [data |-> "dropped", animations |-> EmptyMap]

\* Character { data, animations: HashMap::new() }
NewCharacter(data) == [data |-> data, animations |-> EmptyMap]

Res_TakesIdle(resource) ==
  [id \in DOMAIN resource |->
     [resource[id] EXCEPT !.animations =
        [n \in DOMAIN resource[id].animations \ {"idle"} |-> resource[id].animations[n]]]]

\* Res<T>: shared access, the system leaves the resource as it found it
Res(resource) == resource

(* ------------------------------ dropdown ------------------------------- *)

\* the options of the dropdown that setup_dropdown spawns
Options == <<"Option A", "Option B", "Option C", "Random Value 1", "Random Value 2">>

\* the entities of dropdown d that carry an Interaction: its main button
\* (DropdownButton) and item i of its list (DropdownItem)
Button(d) == [kind |-> "button", dropdown |-> d, item |-> 0]
Item(d, i) == [kind |-> "item", dropdown |-> d, item |-> i]

\* the buttons and the items of the dropdowns with the given option lists,
\* in the order in which a query iterates over them (spawn order)
ButtonOrder(items) == [d \in 1..Len(items) |-> Button(d)]

ItemOrder(items) ==
  LET Upto[d \in 0..Len(items)] ==
        IF d = 0 THEN <<>>
        ELSE Upto[d - 1] \o [i \in 1..Len(items[d]) |-> Item(d, i)]
  IN Upto[Len(items)]

Interactive(items) ==
  {Button(d) : d \in 1..Len(items)}
  \cup UNION {{Item(d, i) : i \in 1..Len(items[d])} : d \in 1..Len(items)}

\* the schedules of a tick: ui_focus_system runs in PreUpdate,
\* handle_dropdown_interactions in Update, and the observers of the triggers
\* it queued run when its commands are applied
Schedules == {"PreUpdate", "Update", "Observers"}

\* no press of a main button to compare the next one with
NoPress == <<>>

\* the world after one dropdown has been spawned for each entry of specs
\* ([label, options]): every list has display None, every button shows its
\* label, every Interaction is None and counts as changed (it was just
\* added)
Spawned(specs) ==
  LET items == [d \in 1..Len(specs) |-> specs[d].options]
  IN [items |-> items,
      display |-> [d \in 1..Len(specs) |-> "None"],
      label |-> [d \in 1..Len(specs) |-> specs[d].label],
      interaction |-> [e \in Interactive(items) |-> "None"],
      color |-> [e \in Interactive(items) |->
                  IF e.kind = "button" THEN "NORMAL_BUTTON" ELSE "NONE"],
      changed |-> Interactive(items),
      triggers |-> <<>>,
      logged |-> <<>>,
      schedule |-> "PreUpdate",
      beforePress |-> NoPress, beforeSelect |-> NoPress]

\* before Startup nothing is spawned
NoDropdown == Spawned(<<>>)

\* setup_dropdown: one dropdown labelled "Select Option" with the five options
setup_dropdown == Spawned(<<[label |-> "Select Option", options |-> Options]>>)

toggle_ShowOnly(display) == "Flex"

\* match list_node.display { Display::None => Display::Flex, _ => Display::None }
toggle(display) == IF display = "None" THEN "Flex" ELSE "None"

Selects_Hovered(interaction) == interaction # "None"

\* the Interaction::Pressed arm of the item loop
Selects(interaction) == interaction = "Pressed"

\* the colour each arm of the button loop assigns
ButtonColor(interaction) ==
  CASE interaction = "Pressed" -> "PRESSED_BUTTON"
    [] interaction = "Hovered" -> "HOVERED_BUTTON"
    [] interaction = "None" -> "NORMAL_BUTTON"

\* the colour each arm of the item loop assigns
ItemColor(interaction) ==
  CASE interaction = "Pressed" -> "PRESSED_BUTTON"
    [] interaction = "Hovered" -> "HOVERED_BUTTON"
    [] interaction = "None" -> "NONE"

(* ------------------------------- state --------------------------------- *)

VARIABLES
  setupDone,        \* the Startup schedule has run
  characterDatum,   \* Assets<CharacterData>: handle -> definition or Absent
  assetEvents,      \* unread AssetEvent<CharacterData> messages
  triggered,        \* AssetLoadedEvent triggers queued by the bridge
  characters,       \* Characters resource: id -> Character
  loads,            \* asset_server.load calls, in call order
  sceneAssets,      \* loaded scene assets: locator -> scene
  animationGraphs,  \* Assets<AnimationGraph>: handle i is element i
  entities,         \* spawned scene root placeholders
  instances,        \* instantiated subtrees: placeholder -> nodes
  readySignals,     \* SceneInstanceReady triggers awaiting their observer
  idleRuns,         \* runs of start_idle per placeholder
  reloads,          \* repeated loads of the definition so far
  panicked,         \* the failure that aborted the program, or NoPanic
  ui                \* the dropdown widgets: lists, labels, interactions

vars == <<setupDone, characterDatum, assetEvents, triggered, characters, loads,
          sceneAssets, animationGraphs, entities, instances,
          readySignals, idleRuns, reloads, panicked, ui>>

Running == panicked = NoPanic

\* the bridge reads the lifecycle events of a tick in that tick's Update, and
\* commands queued by a system (triggers included) are applied, and their
\* observers run, before the asset subsystem or the scene spawner act again
Flushed == assetEvents = <<>> /\ triggered = <<>> /\ readySignals = <<>>

Init ==
  /\ setupDone = FALSE
  /\ characterDatum = (MutantJson :> Absent)
  /\ assetEvents = <<>>
  /\ triggered = <<>>
  /\ characters = EmptyMap
  /\ loads = <<>>
  /\ sceneAssets = EmptyMap
  /\ animationGraphs = <<>>
  /\ entities = <<>>
  /\ instances = EmptyMap
  /\ readySignals = <<>>
  /\ idleRuns = EmptyMap
  /\ reloads = 0
  /\ panicked = NoPanic
  /\ ui = NoDropdown

(* ----------------------------- fn setup -------------------------------- *)

Setup ==
  /\ Running
  /\ ~setupDone
  /\ setupDone' = TRUE
  /\ loads' = Append(loads, [kind |-> "data", path |-> MutantJson, owner |-> MutantId])
  /\ characters' = Put(EmptyMap, MutantId, NewCharacter(MutantJson))
  /\ ui' = setup_dropdown
  /\ UNCHANGED <<characterDatum, assetEvents, triggered, sceneAssets,
                 animationGraphs, entities, instances, readySignals, idleRuns,
                 reloads, panicked>>

(* ------------------------- asset subsystem ----------------------------- *)

\* the holders of a strong Handle<CharacterData> to asset h: registry records
\* (Character.data) and placeholders (CharacterModel)
StrongOwners(h) ==
  {<<"record", id>> : id \in {i \in DOMAIN characters : characters[i].data = h}}
  \cup {<<"placeholder", e>> : e \in {k \in 1..Len(entities) : entities[k].character_model = h}}

\* the asset system frees an asset that no strong handle keeps alive
Kept(h, asset) == IF StrongOwners(h) = {} THEN Absent ELSE asset

\* the load of characters/mutant.json completes with some file contents
DefinitionLoaded(d) ==
  /\ Running
  /\ Flushed
  /\ setupDone
  /\ characterDatum[MutantJson] = Absent
  /\ characterDatum' = [characterDatum EXCEPT ![MutantJson] = Kept(MutantJson, d)]
  /\ assetEvents' = assetEvents \o <<[kind |-> "Added", id |-> MutantJson],
                                     [kind |-> "LoadedWithDependencies", id |-> MutantJson]>>
  /\ UNCHANGED <<setupDone, triggered, characters, loads, sceneAssets,
                 animationGraphs, entities, instances, readySignals, idleRuns,
                 reloads, panicked, ui>>

\* the asset subsystem repeats the loaded-with-dependencies transition of
\* the (unchanged) definition
DefinitionReloaded ==
  /\ Running
  /\ Flushed
  /\ characterDatum[MutantJson] # Absent
  /\ reloads < MaxReloads
  /\ reloads' = reloads + 1
  /\ assetEvents' = assetEvents \o <<[kind |-> "Modified", id |-> MutantJson],
                                     [kind |-> "LoadedWithDependencies", id |-> MutantJson]>>
  /\ characterDatum' = [characterDatum EXCEPT ![MutantJson] = Kept(MutantJson, @)]
  /\ UNCHANGED <<setupDone, triggered, characters, loads, sceneAssets,
                 animationGraphs, entities, instances, readySignals,
                 idleRuns, panicked, ui>>

\* scene locators requested from the asset server and not loaded yet
PendingScenes ==
  {loads[i].path : i \in {k \in 1..Len(loads) : loads[k].kind = "scene"}} \ DOMAIN sceneAssets

\* a requested scene finishes loading; its contents are whatever the model
\* file holds
SceneLoaded(path, scene) ==
  /\ Running
  /\ Flushed
  /\ path \in PendingScenes
  /\ sceneAssets' = Put(sceneAssets, path, scene)
  /\ UNCHANGED <<setupDone, characterDatum, assetEvents, triggered, characters,
                 loads, animationGraphs, entities, instances,
                 readySignals, idleRuns, reloads, panicked, ui>>

(* ------------------------ fn bridge_asset_events ----------------------- *)

IsLoadComplete_AnyChange(event) == event.kind \in {"LoadedWithDependencies", "Modified"}

\* if let AssetEvent::LoadedWithDependencies { id } = event
IsLoadComplete(event) == event.kind = "LoadedWithDependencies"

RECURSIVE Bridged(_)
\* for event in events.read() { ... commands.trigger(AssetLoadedEvent(*id)) }
Bridged(events) ==
  IF events = <<>> THEN <<>>
  ELSE (IF IsLoadComplete(Head(events)) THEN <<Head(events).id>> ELSE <<>>)
       \o Bridged(Tail(events))

BridgeAssetEvents ==
  /\ Running
  /\ assetEvents # <<>>
  /\ triggered' = triggered \o Bridged(assetEvents)
  /\ assetEvents' = <<>>
  /\ UNCHANGED <<setupDone, characterDatum, characters, loads, sceneAssets, animationGraphs, entities, instances,
                 readySignals, idleRuns, reloads, panicked, ui>>

(* --------------------- fn on_character_data_loaded --------------------- *)

get_mut_OrInsert(chars, id) ==
  IF id \in DOMAIN chars THEN chars[id] ELSE [data |-> MutantJson, animations |-> EmptyMap]

\* characters.0.get_mut(&character_data.id): the record, or Absent
get_mut(chars, id) == IF id \in DOMAIN chars THEN chars[id] ELSE Absent

observe_Twice(entity, system) == [entity EXCEPT !.observers = @ \o <<system, system>>]

\* .observe(system)
observe(entity, system) == [entity EXCEPT !.observers = Append(@, system)]

GraphHandles_ComponentsOnly(chars, insts) ==
  UNION {{insts[e].nodes[n].graph : n \in DOMAIN insts[e].nodes} : e \in DOMAIN insts}

\* the strong Handle<AnimationGraph>s: record entries and the
\* AnimationGraphHandle components of bound nodes
GraphHandles(chars, insts) ==
  UNION {{chars[id].animations[n].graph : n \in DOMAIN chars[id].animations} : id \in DOMAIN chars}
  \cup UNION {{insts[e].nodes[n].graph : n \in DOMAIN insts[e].nodes} : e \in DOMAIN insts}

\* the graph store after the graphs that no strong handle keeps alive are
\* freed
Swept(graphs, chars, insts) ==
  [g \in 1..Len(graphs) |-> IF g \in GraphHandles(chars, insts) THEN graphs[g] ELSE Absent]

OnCharacterDataLoaded ==
  /\ Running
  /\ triggered # <<>>
  /\ triggered' = Tail(triggered)
  /\ LET character_data == get(characterDatum, Head(triggered))
     IN IF character_data = Absent
        THEN /\ panicked' = "MissingAsset"
             /\ UNCHANGED <<characters, loads, entities, animationGraphs>>
        ELSE LET character == get_mut(characters, character_data.id)
             IN IF character = Absent
                THEN /\ panicked' = "UnregisteredCharacter"
                     /\ UNCHANGED <<characters, loads, entities, animationGraphs>>
                ELSE   LET order == animations(character_data)
                           id == character_data.id
                           model_path == model_scene_path(character_data)
                           base == Len(animationGraphs)
                           built == [i \in 1..Len(order) |-> from_clip(animation_path(character_data, order[i]))]
                           position(name) == CHOOSE i \in 1..Len(order) : order[i] = name
                           names == {order[i] : i \in 1..Len(order)}
                       IN /\ panicked' = panicked
                          /\ loads' = loads
                               \o <<[kind |-> "scene", path |-> model_path, owner |-> id]>>
                               \o [i \in 1..Len(order) |->
                                     [kind |-> "clip",
                                      path |-> animation_path(character_data, order[i]),
                                      owner |-> id]]
                          /\ entities' = Append(entities,
                               observe([scene_root |-> model_path,
                                        name |-> id,
                                        character_model |-> character.data,
                                        observers |-> <<>>],
                                       "start_idle"))
                          /\ characters' = Put(characters, id,
                               [character EXCEPT !.animations =
                                  [name \in DOMAIN character.animations \cup names |->
                                     IF name \in names
                                     THEN [graph |-> base + position(name),
                                           index |-> built[position(name)][2]]
                                     ELSE character.animations[name]]])
                          /\ animationGraphs' =
                               Swept(animationGraphs \o [i \in 1..Len(order) |-> built[i][1]],
                                     characters', instances)
  /\ UNCHANGED <<setupDone, characterDatum, assetEvents, sceneAssets,
                 instances, readySignals, idleRuns, reloads, ui>>

(* --------------------------- scene spawner ----------------------------- *)

\* the scene of placeholder e is instantiated below it and SceneInstanceReady
\* is triggered on e, once for each observer that watches it; the spawner
\* serves the placeholders in the order in which they were spawned
SceneInstanceReady(e) ==
  /\ Running
  /\ Flushed
  /\ e \in 1..Len(entities)
  /\ DOMAIN instances = 1..(e - 1)
  /\ entities[e].scene_root \in DOMAIN sceneAssets
  /\ LET scene == sceneAssets[entities[e].scene_root]
     IN instances' = Put(instances, e,
          [parent |-> scene.parent,
           nodes |-> [n \in 1..Len(scene.parent) |-> FreshNode(scene, n)]])
  /\ readySignals' = readySignals \o [i \in 1..Len(entities[e].observers) |-> e]
  /\ UNCHANGED <<setupDone, characterDatum, assetEvents, triggered, characters,
                 loads, sceneAssets, animationGraphs, entities,
                 idleRuns, reloads, panicked, ui>>

(* ---------------------------- fn start_idle ---------------------------- *)

IdleAnimation_Walk == "walk"

\* .animations.get("idle")
IdleAnimation == "idle"

RECURSIVE FirstPlayer_OrLast(_, _)
FirstPlayer_OrLast(order, nodes) ==
  IF order = <<>> THEN 0
  ELSE IF nodes[Head(order)].player \/ Len(order) = 1 THEN Head(order)
  ELSE FirstPlayer_OrLast(Tail(order), nodes)

\* the first child with animation_players.get_mut(child) == Ok, where the loop
\* breaks, or 0 when the loop runs to its end
FirstPlayer(order, nodes) ==
  LET found == {i \in 1..Len(order) : nodes[order[i]].player}
  IN IF found = {} THEN 0
     ELSE order[CHOOSE i \in found : \A j \in found : i <= j]

play_repeat_Once(node, entry) ==
  [node EXCEPT !.active = [index |-> entry.index, repeat |-> "Never"], !.graph = entry.graph]

\* player.play(*animation_index).repeat(); insert(AnimationGraphHandle(..))
play_repeat(node, entry) ==
  [node EXCEPT !.active = [index |-> entry.index, repeat |-> "Forever"], !.graph = entry.graph]

StartIdle ==
  /\ Running
  /\ readySignals # <<>>
  /\ readySignals' = Tail(readySignals)
  /\ LET e == Head(readySignals)
         character_data == get(characterDatum, entities[e].character_model)
         child == FirstPlayer(iter_descendants(instances[e].parent), instances[e].nodes)
     IN /\ idleRuns' = Put(idleRuns, e, IF e \in DOMAIN idleRuns THEN idleRuns[e] + 1 ELSE 1)
        /\ IF character_data = Absent
           THEN panicked' = "MissingAsset" /\ UNCHANGED instances
           ELSE IF child = 0
           THEN UNCHANGED <<panicked, instances>>
           ELSE IF character_data.id \notin DOMAIN characters
           THEN panicked' = "UnregisteredCharacter" /\ UNCHANGED instances
           ELSE IF IdleAnimation \notin DOMAIN characters[character_data.id].animations
           THEN panicked' = "AnimationNotFound" /\ UNCHANGED instances
           ELSE /\ panicked' = panicked
                /\ instances' = [instances EXCEPT ![e].nodes[child] =
                     play_repeat(@, characters[character_data.id].animations[IdleAnimation])]
  /\ characters' = Res(characters)
  /\ UNCHANGED <<setupDone, characterDatum, assetEvents, triggered,
                 loads, sceneAssets, animationGraphs, entities, reloads, ui>>

(* ------------------------------ dropdown ------------------------------- *)

\* the Interaction components when the pointer is over nothing, or hovers
\* over or presses one entity: buttons block the pointer, so it reaches one
\* entity at most
PointerStates(items) ==
  {[e \in Interactive(items) |-> "None"]}
  \cup {[e \in Interactive(items) |-> IF e = target THEN state ELSE "None"] :
          target \in Interactive(items), state \in {"Hovered", "Pressed"}}

\* ui_focus_system: writes the Interaction of every entity whose state is no
\* longer the one the pointer gives it; those writes are what
\* Changed<Interaction> sees in Update
UiFocus(interaction) ==
  /\ Running
  /\ ui.schedule = "PreUpdate"
  /\ ui' = [ui EXCEPT
        !.interaction = interaction,
        !.changed = ui.changed \cup {e \in DOMAIN interaction : interaction[e] # ui.interaction[e]},
        !.schedule = "Update"]
  /\ UNCHANGED <<setupDone, characterDatum, assetEvents, triggered, characters,
                 loads, sceneAssets, animationGraphs, entities, instances,
                 readySignals, idleRuns, reloads, panicked>>

\* fn handle_dropdown_interactions: the loop over the changed main buttons,
\* then the loop over the changed items
HandleDropdownInteractions ==
  /\ Running
  /\ ui.schedule = "Update"
  /\ LET buttons == SelectSeq(ButtonOrder(ui.items), LAMBDA e : e \in ui.changed)
         items == SelectSeq(ItemOrder(ui.items), LAMBDA e : e \in ui.changed)
         presses == Len(SelectSeq(buttons, LAMBDA e : ui.interaction[e] = "Pressed"))
         Toggled[k \in 0..presses] ==
           IF k = 0 THEN ui.display
           ELSE [d \in DOMAIN ui.display |-> toggle(Toggled[k - 1][d])]
         selected == SelectSeq(items, LAMBDA e : Selects(ui.interaction[e]))
         value(e) == ui.items[e.dropdown][e.item]
     IN ui' = [ui EXCEPT
          !.color = [e \in DOMAIN ui.color |->
                       IF e \notin ui.changed THEN ui.color[e]
                       ELSE IF e.kind = "button" THEN ButtonColor(ui.interaction[e])
                       ELSE ItemColor(ui.interaction[e])],
          !.display = IF selected = <<>> THEN Toggled[presses]
                      ELSE [d \in DOMAIN ui.display |-> "None"],
          !.label = IF selected = <<>> THEN ui.label
                    ELSE [d \in DOMAIN ui.label |-> value(selected[Len(selected)])],
          !.triggers = ui.triggers \o [i \in 1..Len(selected) |-> value(selected[i])],
          !.changed = {},
          !.schedule = IF selected = <<>> THEN "PreUpdate" ELSE "Observers",
          !.beforePress = IF selected # <<>> THEN NoPress
                          ELSE IF presses > 0 THEN <<ui.display>>
                          ELSE ui.beforePress,
          !.beforeSelect = IF selected # <<>> THEN <<ui.display>>
                           ELSE ui.beforeSelect]
  /\ UNCHANGED <<setupDone, characterDatum, assetEvents, triggered, characters,
                 loads, sceneAssets, animationGraphs, entities, instances,
                 readySignals, idleRuns, reloads, panicked>>

\* fn handle_dropdown_events: the observer of DropdownChanged logs the value
HandleDropdownEvents ==
  /\ Running
  /\ ui.schedule = "Observers"
  /\ ui' = [ui EXCEPT
        !.logged = <<"Dropdown Selection Changed: " \o Head(ui.triggers)>>,
        !.triggers = Tail(ui.triggers),
        !.schedule = IF Tail(ui.triggers) = <<>> THEN "PreUpdate" ELSE "Observers"]
  /\ UNCHANGED <<setupDone, characterDatum, assetEvents, triggered, characters,
                 loads, sceneAssets, animationGraphs, entities, instances,
                 readySignals, idleRuns, reloads, panicked>>

(* --------------------------- specification ----------------------------- *)

Next ==
  \/ Setup
  \/ \E d \in CharacterData : DefinitionLoaded(d)
  \/ DefinitionReloaded
  \/ \E path \in PendingScenes : \E scene \in Scenes : SceneLoaded(path, scene)
  \/ BridgeAssetEvents
  \/ OnCharacterDataLoaded
  \/ \E e \in 1..Len(entities) : SceneInstanceReady(e)
  \/ StartIdle

Spec == Init /\ [][Next]_vars

TypeOK ==
  /\ setupDone \in BOOLEAN
  /\ panicked \in {NoPanic, "MissingAsset", "UnregisteredCharacter", "AnimationNotFound"}
  /\ DOMAIN characters \subseteq {MutantId}
  /\ \A i \in 1..Len(entities) : entities[i].character_model = MutantJson

(* ------------------------ the pipeline, scheduled ---------------------- *)

\* definitions and scenes of the scheduled runs: every id, every set of
\* animation names in every iteration order, every hierarchy of up to
\* MaxFairNodes descendants with every placement of players; one model path
\* and one clip path
FairData ==
  {d \in CharacterData :
     /\ d.model_path = "m"
     /\ \A n \in DOMAIN d.animation_paths : d.animation_paths[n] = "a"}

FairScenes == {scene \in Scenes : Len(scene.parent) <= MaxFairNodes}

NextFair ==
  \/ Setup
  \/ \E d \in FairData : DefinitionLoaded(d)
  \/ DefinitionReloaded
  \/ \E path \in PendingScenes : \E scene \in FairScenes : SceneLoaded(path, scene)
  \/ BridgeAssetEvents
  \/ OnCharacterDataLoaded
  \/ \E e \in 1..Len(entities) : SceneInstanceReady(e)
  \/ StartIdle

\* Startup runs once and Update runs every tick, commands are flushed and
\* observers run after each system; every issued load completes and every
\* spawned scene is instantiated. Nothing obliges the asset subsystem to load
\* the definition a second time.
Fairness ==
  /\ WF_vars(Setup)
  /\ WF_vars(BridgeAssetEvents)
  /\ WF_vars(OnCharacterDataLoaded)
  /\ WF_vars(StartIdle)
  /\ WF_vars(\E d \in FairData : DefinitionLoaded(d))
  /\ WF_vars(\E path \in PendingScenes : \E scene \in FairScenes : SceneLoaded(path, scene))
  /\ WF_vars(\E e \in 1..Len(entities) : SceneInstanceReady(e))

FairSpec == Init /\ [][NextFair]_vars /\ Fairness

(* ------------------------- the dropdown widgets ------------------------ *)

\* the worlds with up to MaxDropdowns dropdowns of up to MaxItems options
\* each, spawned as setup_dropdown and spawn_dropdown spawn them
Dropdowns ==
  {Spawned([d \in 1..n |-> [label |-> "Select Option", options |-> SubSeq(Options, 1, k)]]) :
     n \in 1..MaxDropdowns, k \in 1..MaxItems}

\* the state setup leaves behind; the dropdown systems and the loading
\* pipeline share no state, so the pipeline is left where setup put it
InitDropdown ==
  /\ setupDone = TRUE
  /\ characterDatum = (MutantJson :> Absent)
  /\ assetEvents = <<>>
  /\ triggered = <<>>
  /\ characters = Put(EmptyMap, MutantId, NewCharacter(MutantJson))
  /\ loads = <<[kind |-> "data", path |-> MutantJson, owner |-> MutantId]>>
  /\ sceneAssets = EmptyMap
  /\ animationGraphs = <<>>
  /\ entities = <<>>
  /\ instances = EmptyMap
  /\ readySignals = <<>>
  /\ idleRuns = EmptyMap
  /\ reloads = 0
  /\ panicked = NoPanic
  /\ ui \in Dropdowns

NextDropdown ==
  \/ \E interaction \in PointerStates(ui.items) : UiFocus(interaction)
  \/ HandleDropdownInteractions
  \/ HandleDropdownEvents

SpecDropdown == InitDropdown /\ [][NextDropdown]_vars

UiTypeOK ==
  /\ ui.schedule \in Schedules
  /\ \A d \in DOMAIN ui.display : ui.display[d] \in {"None", "Flex"}
  /\ ui.changed \subseteq Interactive(ui.items)
  /\ ui.schedule = "PreUpdate" => ui.triggers = <<>>

(* ------------------- the orchestrator on any trigger ------------------- *)

\* the state setup leaves behind, with the definition resolved to d or not
\* yet resolved, and Load-Complete triggers queued for the observer: for the
\* definition once it is resolved, and for an asset that the store no longer
\* holds by the time the observer runs
Deliveries(d) ==
  LET ids == {"characters/other.json"} \cup (IF d = Absent THEN {} ELSE {MutantJson})
  IN UNION {[1..n -> ids] : n \in 1..MaxDeliveries}

InitDelivery ==
  /\ setupDone = TRUE
  /\ \E d \in CharacterData \cup {Absent} :
       /\ characterDatum = (MutantJson :> d)
       /\ triggered \in Deliveries(d)
  /\ assetEvents = <<>>
  /\ characters = Put(EmptyMap, MutantId, NewCharacter(MutantJson))
  /\ loads = <<[kind |-> "data", path |-> MutantJson, owner |-> MutantId]>>
  /\ sceneAssets = EmptyMap
  /\ animationGraphs = <<>>
  /\ entities = <<>>
  /\ instances = EmptyMap
  /\ readySignals = <<>>
  /\ idleRuns = EmptyMap
  /\ reloads = 0
  /\ panicked = NoPanic
  /\ ui = setup_dropdown

NextDelivery == OnCharacterDataLoaded

SpecDelivery == InitDelivery /\ [][NextDelivery]_vars

(* ---------------------- the bridge on any stream ----------------------- *)

AssetEvents == [kind : AssetEventKinds, id : StreamIds]

Streams == UNION {[1..n -> AssetEvents] : n \in 1..MaxStream}

InitBridge ==
  /\ setupDone = FALSE
  /\ characterDatum = (MutantJson :> Absent)
  /\ assetEvents \in Streams
  /\ triggered = <<>>
  /\ characters = EmptyMap
  /\ loads = <<>>
  /\ sceneAssets = EmptyMap
  /\ animationGraphs = <<>>
  /\ entities = <<>>
  /\ instances = EmptyMap
  /\ readySignals = <<>>
  /\ idleRuns = EmptyMap
  /\ reloads = 0
  /\ panicked = NoPanic
  /\ ui = NoDropdown

NextBridge == BridgeAssetEvents

SpecBridge == InitBridge /\ [][NextBridge]_vars

(* ---------------------------- properties ------------------------------- *)

\* the definition a Load-Complete trigger at the head of the queue resolves to
Delivered == characterDatum[Head(triggered)]

\* the delivery at the head of the queue passes both lookups of the handler
Deliverable ==
  /\ triggered # <<>>
  /\ Delivered # Absent
  /\ Delivered.id \in DOMAIN characters

\* the handler has already completed for the asset id at the head of the queue
AlreadyProcessed ==
  /\ triggered # <<>>
  /\ \E e \in 1..Len(entities) : entities[e].character_model = Head(triggered)

\* the loads issued by the step
NewLoads == SubSeq(loads', Len(loads) + 1, Len(loads'))

\* C1: a Load-Complete delivered again for an id the orchestrator has already
\* processed issues no load, spawns no placeholder and leaves the registry
\* (records and animation entries) as it was.
C1_RedeliveryIdempotent ==
  [][(OnCharacterDataLoaded /\ AlreadyProcessed)
       => /\ loads' = loads
          /\ entities' = entities
          /\ characters' = characters]_vars

\* the placeholder whose scene-ready signal start_idle handles next
Ready == Head(readySignals)

\* the record of the character of placeholder e exists and has no "idle" entry
LacksIdle(e) ==
  LET d == characterDatum[entities[e].character_model]
  IN /\ d # Absent
     /\ d.id \in DOMAIN characters
     /\ "idle" \notin DOMAIN characters[d.id].animations

HasIdle(e) ==
  LET d == characterDatum[entities[e].character_model]
  IN /\ d # Absent
     /\ d.id \in DOMAIN characters
     /\ "idle" \in DOMAIN characters[d.id].animations

Players(e) == {n \in DOMAIN instances[e].nodes : instances[e].nodes[n].player}

\* C2 as stated: whatever the shape of the subtree, start_idle for a character
\* whose record has no "idle" entry ends in AnimationNotFound.
C2_NoIdleAlwaysFails ==
  [][(StartIdle /\ LacksIdle(Ready)) => panicked' = "AnimationNotFound"]_vars

\* C2 amended: start_idle for a character whose record has no "idle" entry
\* ends in AnimationNotFound whenever the subtree has a playback-capable
\* node; it changes no node on the way.
C2_NoIdleFailsWhenPlayerFound ==
  [][(StartIdle /\ LacksIdle(Ready) /\ Players(Ready) # {})
       => /\ panicked' = "AnimationNotFound"
          /\ instances' = instances]_vars

C2_Witness ==
  /\ panicked = "AnimationNotFound"
  /\ \E e \in DOMAIN idleRuns : LacksIdle(e) /\ Players(e) # {}

\* C3: once the definition (with an "idle" path) has been handled and the
\* scene-ready signal is handled for a placeholder whose subtree is one
\* playback-capable node, that node holds the graph stored under "idle" in
\* the record and plays, repeating forever, at the index recorded for "idle".
C3_EndToEndIdle ==
  [][(/\ StartIdle
      /\ Len(instances[Ready].parent) = 1
      /\ Players(Ready) = {1}
      /\ characterDatum[MutantJson] # Absent
      /\ "idle" \in DOMAIN characterDatum[MutantJson].animation_paths)
       => LET entry == characters'[characterDatum[MutantJson].id].animations["idle"]
              node == instances'[Ready].nodes[1]
          IN /\ panicked' = NoPanic
             /\ node.graph = entry.graph
             /\ node.active = [index |-> entry.index, repeat |-> "Forever"]]_vars

C3_Witness ==
  \E e \in DOMAIN instances :
    /\ Len(instances[e].parent) = 1
    /\ instances[e].nodes[1].active = [index |-> 1, repeat |-> "Forever"]
    /\ "idle" \in DOMAIN characters[MutantId].animations
    /\ instances[e].nodes[1].graph = characters[MutantId].animations["idle"].graph

\* C4: a scene or clip load is issued for a character id only when the
\* registry already holds a record for that id; a delivery whose definition
\* id has no record aborts with UnregisteredCharacter, issuing no load and
\* spawning no placeholder.
C4_RecordBeforeLoads ==
  [][/\ \A i \in 1..Len(NewLoads) :
          NewLoads[i].kind \in {"scene", "clip"} => NewLoads[i].owner \in DOMAIN characters
     /\ (OnCharacterDataLoaded /\ Delivered # Absent /\ Delivered.id \notin DOMAIN characters)
          => /\ loads' = loads
             /\ entities' = entities
             /\ characters' = characters
             /\ panicked' = "UnregisteredCharacter"]_vars

C4_Witness ==
  /\ panicked = "UnregisteredCharacter"
  /\ characterDatum[MutantJson].id = "ghost"
  /\ entities = <<>>

\* C5: after a delivery is handled, the record has exactly one animation
\* entry per name of the definition and no other; each entry names a graph
\* built by this very run and a node index of that graph.
C5_EntriesMatchDefinition ==
  [][(OnCharacterDataLoaded /\ Deliverable)
       => LET d == Delivered
              entries == characters'[d.id].animations
          IN /\ DOMAIN entries = DOMAIN d.animation_paths
             /\ \A n \in DOMAIN entries :
                  /\ entries[n].graph \in (Len(animationGraphs) + 1)..Len(animationGraphs')
                  /\ entries[n].index \in DOMAIN animationGraphs'[entries[n].graph].nodes
             /\ \A n, m \in DOMAIN entries : n # m => entries[n].graph # entries[m].graph]_vars

C5_Witness ==
  /\ MutantId \in DOMAIN characters
  /\ DOMAIN characters[MutantId].animations = {"idle", "walk"}
  /\ Len(animationGraphs) = 2

\* loc is base followed by suffix
Suffixed(loc, base, suffix) ==
  /\ Len(loc) = Len(base) + Len(suffix)
  /\ SubSeq(loc, 1, Len(base)) = base
  /\ SubSeq(loc, Len(base) + 1, Len(loc)) = suffix

\* C6: the orchestrator requests the scene at model_path followed by
\* "#Scene0", one clip per animation name at its path followed by
\* "#Animation0", and nothing else.
C6_Locators ==
  [][(OnCharacterDataLoaded /\ Deliverable)
       => LET d == Delivered
              scenes == {i \in 1..Len(NewLoads) : NewLoads[i].kind = "scene"}
              clips == {i \in 1..Len(NewLoads) : NewLoads[i].kind = "clip"}
          IN /\ scenes \cup clips = 1..Len(NewLoads)
             /\ Cardinality(scenes) = 1
             /\ \A i \in scenes : Suffixed(NewLoads[i].path, d.model_path, "#Scene0")
             /\ Cardinality(clips) = Cardinality(DOMAIN d.animation_paths)
             /\ \A n \in DOMAIN d.animation_paths :
                  \E i \in clips : Suffixed(NewLoads[i].path, d.animation_paths[n], "#Animation0")
             /\ \A i \in clips :
                  \E n \in DOMAIN d.animation_paths :
                    Suffixed(NewLoads[i].path, d.animation_paths[n], "#Animation0")]_vars

C6_Witness ==
  /\ \E i \in 1..Len(loads) : loads[i] = [kind |-> "scene", path |-> "models/mutant.glb#Scene0", owner |-> "mutant"]
  /\ \E i \in 1..Len(loads) : loads[i] = [kind |-> "clip", path |-> "anims/idle.glb#Animation0", owner |-> "mutant"]
  /\ \E i \in 1..Len(loads) : loads[i] = [kind |-> "clip", path |-> "a#Animation0", owner |-> "mutant"]

\* positions of the loaded-with-dependencies events of a stream
LoadedAt(events) == {i \in 1..Len(events) : events[i].kind = "LoadedWithDependencies"}

\* position of the k-th loaded-with-dependencies event of a stream
KthLoaded(events, k) ==
  CHOOSE i \in LoadedAt(events) : Cardinality({j \in LoadedAt(events) : j <= i}) = k

\* C7: one run of the bridge emits one Load-Complete per
\* loaded-with-dependencies event read, with that event's asset id, in the
\* order of the events, and nothing for any other event.
C7_BridgeOnePerLoaded ==
  [][BridgeAssetEvents
       => LET emitted == SubSeq(triggered', Len(triggered) + 1, Len(triggered'))
          IN /\ Len(emitted) = Cardinality(LoadedAt(assetEvents))
             /\ \A k \in 1..Len(emitted) :
                  emitted[k] = assetEvents[KthLoaded(assetEvents, k)].id
             /\ SubSeq(triggered', 1, Len(triggered)) = triggered]_vars

C7_Witness ==
  /\ assetEvents = <<>>
  /\ triggered = <<"characters/other.json", MutantJson>>

RECURSIVE Depth(_, _)
\* number of edges between node n and the placeholder root 0
Depth(parent, n) == IF n = 0 THEN 0 ELSE 1 + Depth(parent, parent[n])

RECURSIVE Precedes(_, _, _)
\* n comes before m in level order: shallower first; on one level, by the
\* order of the parents and then by the order among siblings
Precedes(parent, n, m) ==
  IF Depth(parent, n) # Depth(parent, m) THEN Depth(parent, n) < Depth(parent, m)
  ELSE IF n = 0 \/ n = m THEN FALSE
  ELSE IF parent[n] = parent[m] THEN n < m
  ELSE Precedes(parent, parent[n], parent[m])

\* C8: when the subtree has several playback-capable nodes, a successful run
\* of start_idle binds exactly one node, the playback-capable node that is
\* first in the traversal (level) order, and leaves every other node as it
\* was.
C8_FirstMatchOnly ==
  [][(StartIdle /\ HasIdle(Ready) /\ Cardinality(Players(Ready)) >= 2)
       => LET e == Ready
              parent == instances[e].parent
              first == CHOOSE c \in Players(e) :
                         \A m \in Players(e) \ {c} : Precedes(parent, c, m)
              entry == characters[characterDatum[entities[e].character_model].id].animations["idle"]
          IN /\ instances'[e].nodes[first].active = [index |-> entry.index, repeat |-> "Forever"]
             /\ instances'[e].nodes[first].graph = entry.graph
             /\ \A m \in DOMAIN instances[e].nodes \ {first} :
                  instances'[e].nodes[m] = instances[e].nodes[m]
             /\ \A o \in DOMAIN instances \ {e} : instances'[o] = instances[o]]_vars

C8_Witness ==
  \E e \in DOMAIN instances :
    /\ instances[e].parent = <<0, 1, 0>>
    /\ Depth(instances[e].parent, 2) = 2
    /\ Players(e) = {2, 3}
    /\ instances[e].nodes[3].active # NoAnimation
    /\ instances[e].nodes[2].active = NoAnimation

\* C9: start_idle runs exactly once for every placeholder whose scene has
\* been instantiated: never before the instantiation, once when its
\* scene-ready signal is handled, and never again.
C9_ActivatorRunsOnce ==
  \A e \in 1..Len(entities) :
    /\ e \in DOMAIN idleRuns => (e \in DOMAIN instances /\ idleRuns[e] = 1)
    /\ (e \in DOMAIN instances /\ \A i \in 1..Len(readySignals) : readySignals[i] # e)
         => e \in DOMAIN idleRuns

C9_Witness ==
  /\ Len(entities) = 2
  /\ DOMAIN instances = {1, 2}
  /\ readySignals = <<>>
  /\ idleRuns = (1 :> 1 @@ 2 :> 1)

\* lifecycle state of character id
Phase(id) ==
  IF id \notin DOMAIN characters THEN "Unregistered"
  ELSE IF \A e \in 1..Len(entities) : entities[e].name # id THEN "Registered"
  ELSE IF \E e \in DOMAIN instances :
            /\ entities[e].name = id
            /\ \E n \in DOMAIN instances[e].nodes : instances[e].nodes[n].active # NoAnimation
       THEN "SceneActivated"
  ELSE "DefinitionLoaded"

Rank(phase) ==
  CASE phase = "Unregistered" -> 0
    [] phase = "Registered" -> 1
    [] phase = "DefinitionLoaded" -> 2
    [] phase = "SceneActivated" -> 3

\* C10: every character moves only from Unregistered to Registered to
\* DefinitionLoaded to SceneActivated, one step at a time, and once it is
\* SceneActivated nothing changes its animation entries, spawns another
\* placeholder for it or rebinds its playback node.
C10_LifecycleTerminal ==
  [][\A id \in CharacterIds :
       /\ Rank(Phase(id)') \in {Rank(Phase(id)), Rank(Phase(id)) + 1}
       /\ Phase(id) = "SceneActivated"
            => /\ characters'[id].animations = characters[id].animations
               /\ {e \in 1..Len(entities') : entities'[e].name = id}
                    = {e \in 1..Len(entities) : entities[e].name = id}
               /\ \A e \in DOMAIN instances :
                    entities[e].name = id => instances'[e] = instances[e]]_vars

\* the Handle<CharacterData>s that asset_server.load handed to the program
DefinitionHandles == {loads[i].path : i \in {k \in 1..Len(loads) : loads[k].kind = "data"}}

\* every definition handle is held by a registry record, and every
\* placeholder holds the handle of a record
HandleOwned ==
  /\ \A h \in DefinitionHandles : \E id \in DOMAIN characters : <<"record", id>> \in StrongOwners(h)
  /\ \A e \in 1..Len(entities) :
       /\ entities[e].character_model \in DefinitionHandles
       /\ \E id \in DOMAIN characters : characters[id].data = entities[e].character_model

\* C11: the definition handle of a registered character is always held by
\* its record, and by every placeholder from its spawn on; a resolved
\* definition is never evicted; and whenever start_idle runs, the handle of
\* its placeholder resolves, so start_idle never ends in MissingAsset.
C11_HandleNeverEvicted ==
  [][/\ HandleOwned'
     /\ \A h \in DOMAIN characterDatum :
          characterDatum[h] # Absent => characterDatum'[h] # Absent
     /\ StartIdle => /\ get(characterDatum, entities[Ready].character_model) # Absent
                     /\ panicked' # "MissingAsset"]_vars

C11_Witness ==
  /\ idleRuns # EmptyMap
  /\ reloads > 0
  /\ \A e \in DOMAIN idleRuns : get(characterDatum, entities[e].character_model) # Absent
  /\ Cardinality(StrongOwners(MutantJson)) >= 3

\* C12: every animation entry of every record names a graph that the graph
\* store still holds, and that graph has a node at the entry's index, after
\* any sequence of deliveries and scene-ready signals, repeated ones
\* included.
C12_EntriesResolve ==
  \A id \in DOMAIN characters : \A n \in DOMAIN characters[id].animations :
    LET entry == characters[id].animations[n]
    IN /\ entry.graph \in 1..Len(animationGraphs)
       /\ animationGraphs[entry.graph] # Absent
       /\ entry.index \in DOMAIN animationGraphs[entry.graph].nodes

C12_Witness ==
  /\ reloads > 0
  /\ idleRuns # EmptyMap
  /\ \E g \in 1..Len(animationGraphs) : animationGraphs[g] = Absent
  /\ Cardinality(DOMAIN characters[MutantId].animations) = 2
  /\ C12_EntriesResolve

\* C13: a record is created at registration with an empty animation map;
\* from then on no step removes a record or any name from a record's
\* animation map.
C13_RecordNeverShrinks ==
  [][/\ Setup => /\ MutantId \in DOMAIN characters'
                 /\ characters'[MutantId].animations = EmptyMap
     /\ \A id \in DOMAIN characters :
          /\ id \in DOMAIN characters'
          /\ DOMAIN characters[id].animations \subseteq DOMAIN characters'[id].animations]_vars

C13_Witness ==
  /\ Len(entities) = 2
  /\ triggered = <<>>
  /\ DOMAIN characters[MutantId].animations = AnimationNames

\* the asset store holds nothing under id
Unresolvable(id) == id \notin DOMAIN characterDatum \/ characterDatum[id] = Absent

\* C14: when Load-Complete is delivered for an id whose definition the store
\* does not resolve, on_character_data_loaded aborts with MissingAsset and
\* has issued no load, spawned no placeholder, created no graph and left the
\* registry as it was.
C14_MissingAssetAbortsClean ==
  [][(OnCharacterDataLoaded /\ Unresolvable(Head(triggered)))
       => /\ panicked' = "MissingAsset"
          /\ loads' = loads
          /\ entities' = entities
          /\ animationGraphs' = animationGraphs
          /\ characters' = characters]_vars

C14_Witness ==
  /\ panicked = "MissingAsset"
  /\ Len(entities) = 1
  /\ Len(loads) = 4
  /\ Len(animationGraphs) = 2

\* C15: when the subtree of the placeholder has no playback-capable node,
\* start_idle raises no failure, attaches no graph, starts no playback and
\* leaves the registry unchanged.
C15_NoPlayerNoEffect ==
  [][(StartIdle /\ Players(Ready) = {})
       => /\ panicked' = NoPanic
          /\ instances' = instances
          /\ characters' = characters
          /\ animationGraphs' = animationGraphs]_vars

C15_Witness ==
  /\ Running
  /\ \E e \in DOMAIN idleRuns :
       /\ Players(e) = {}
       /\ Len(instances[e].parent) = MaxNodes
       /\ HasIdle(e)
       /\ \A n \in DOMAIN instances[e].nodes : instances[e].nodes[n] = [player |-> FALSE, active |-> NoAnimation, graph |-> NoGraph]

\* C16: one run of on_character_data_loaded for a resolvable, registered
\* definition issues exactly one scene load and exactly one clip load per
\* animation name, spawns exactly one placeholder, which carries the record's
\* definition handle and one start_idle observer, and returns with those
\* loads outstanding; no other step of the program issues a load again.
C16_OneRequestEach ==
  [][/\ (OnCharacterDataLoaded /\ Deliverable)
          => LET d == Delivered
                 scenes == SelectSeq(NewLoads, LAMBDA l : l.kind = "scene")
                 clips == SelectSeq(NewLoads, LAMBDA l : l.kind = "clip")
             IN /\ Len(scenes) = 1
                /\ Len(scenes) + Len(clips) = Len(NewLoads)
                /\ \E o \in Orders(DOMAIN d.animation_paths) :
                     clips = [i \in 1..Len(o) |->
                                [kind |-> "clip", path |-> animation_path(d, o[i]), owner |-> d.id]]
                /\ Len(entities') = Len(entities) + 1
                /\ SubSeq(entities', 1, Len(entities)) = entities
                /\ entities'[Len(entities')].character_model = characters[d.id].data
                /\ entities'[Len(entities')].observers = <<"start_idle">>
                /\ sceneAssets' = sceneAssets
                /\ instances' = instances
     /\ loads' # loads => Setup \/ (OnCharacterDataLoaded /\ Deliverable)
     /\ entities' # entities => OnCharacterDataLoaded /\ Deliverable]_vars

C16_Witness ==
  /\ Len(loads) = 4
  /\ Len(entities) = 1
  /\ entities[1].observers = <<"start_idle">>
  /\ entities[1].character_model = MutantJson
  /\ triggered = <<>>
  /\ sceneAssets = EmptyMap
  /\ Cardinality({i \in 1..Len(loads) : loads[i].kind = "clip"}) = 2

\* a load issued for character id is outstanding: the load of its definition,
\* or the load of the scene of one of its placeholders
Stalled(id) ==
  /\ id \in DOMAIN characters
  /\ \/ Unresolvable(characters[id].data)
     \/ \E i \in 1..Len(loads) :
          /\ loads[i].kind = "scene"
          /\ loads[i].owner = id
          /\ loads[i].path \in PendingScenes

\* C17: for as long as a load issued for a character stays outstanding, the
\* character keeps its state (Registered or DefinitionLoaded), no failure is
\* entered, no handler issues a further request, and the record and the
\* placeholders stay.
C17_StalledLoadFreezes ==
  [][\A id \in DOMAIN characters :
       (Stalled(id) /\ Stalled(id)')
         => /\ Phase(id) \in {"Registered", "DefinitionLoaded"}
            /\ Phase(id)' = Phase(id)
            /\ panicked' = NoPanic
            /\ loads' = loads
            /\ entities' = entities
            /\ id \in DOMAIN characters']_vars

\* C18: whenever start_idle runs, the definition of its placeholder is
\* resolved, the record of that definition's id exists and holds an entry
\* for every animation name of the definition; so start_idle ends in
\* AnimationNotFound only when the definition has no "idle" path.
C18_ActivationAfterOrchestration ==
  [][StartIdle
       => LET d == characterDatum[entities[Ready].character_model]
          IN /\ d # Absent
             /\ d.id \in DOMAIN characters
             /\ DOMAIN d.animation_paths \subseteq DOMAIN characters[d.id].animations
             /\ panicked' = "AnimationNotFound" => "idle" \notin DOMAIN d.animation_paths]_vars

C18_Witness ==
  /\ panicked = "AnimationNotFound"
  /\ DOMAIN characterDatum[MutantJson].animation_paths = {"walk"}
  /\ DOMAIN characters[MutantId].animations = {"walk"}
  /\ reloads > 0

\* some node below a placeholder of character id plays the record's "idle"
\* entry, repeating forever
IdleRepeating(id) ==
  /\ Phase(id) = "SceneActivated"
  /\ "idle" \in DOMAIN characters[id].animations
  /\ \E e \in DOMAIN instances :
       /\ entities[e].name = id
       /\ \E n \in DOMAIN instances[e].nodes :
            LET node == instances[e].nodes[n]
            IN /\ node.active # NoAnimation
               /\ node.active.repeat = "Forever"
               /\ \E g \in 1..Len(animationGraphs) :
                    /\ node.graph = g
                    /\ animationGraphs[g] # Absent
                    /\ node.active.index \in DOMAIN animationGraphs[g].nodes

\* the definition or the scene of the character registered under id turned
\* out to be one that the claim leaves aside: an id other than the registry
\* key, no "idle" path, or a scene without a playback-capable node
Excused(id) ==
  /\ id \in DOMAIN characters
  /\ LET d == get(characterDatum, characters[id].data)
     IN /\ d # Absent
        /\ \/ d.id # id
           \/ "idle" \notin DOMAIN d.animation_paths
           \/ /\ model_scene_path(d) \in DOMAIN sceneAssets
              /\ sceneAssets[model_scene_path(d)].players = {}

\* C19: when every load completes and every spawned scene signals
\* scene-ready, a registered character whose definition carries its registry
\* key and an "idle" path, and whose scene has a playback-capable node,
\* eventually is SceneActivated with the idle animation repeating.
C19_EventuallyIdle ==
  \A id \in {MutantId} :
    (id \in DOMAIN characters) ~> (Excused(id) \/ IdleRepeating(id))

C19_Witness ==
  /\ IdleRepeating(MutantId)
  /\ ~Excused(MutantId)
  /\ \E e \in DOMAIN instances :
       /\ Len(instances[e].parent) = 2
       /\ instances[e].parent[2] = 1
       /\ instances[e].nodes[2].active # NoAnimation

\* C20: every run of start_idle, whatever its outcome, and every run of
\* bridge_asset_events leaves the registry as it was; once setup has run,
\* the only step that changes the registry is a run of
\* on_character_data_loaded that passes both of its lookups.
C20_SingleWriter ==
  [][/\ StartIdle => characters' = characters
     /\ BridgeAssetEvents => characters' = characters
     /\ (setupDone /\ characters' # characters)
          => (OnCharacterDataLoaded /\ Deliverable)]_vars

C20_Witness ==
  /\ MutantId \in DOMAIN characters
  /\ DOMAIN characters[MutantId].animations = AnimationNames
  /\ Len(entities) = 2
  /\ DOMAIN idleRuns = {1, 2}
  /\ \A e \in {1, 2} : \E n \in DOMAIN instances[e].nodes : instances[e].nodes[n].active # NoAnimation

\* the entities of one kind whose Interaction changed since the handler last
\* ran, and those of them that changed to the pressed state
ChangedOf(kind) == {e \in ui.changed : e.kind = kind}

PressedOf(kind) == {e \in ChangedOf(kind) : ui.interaction[e] = "Pressed"}

ItemValue(e) == ui.items[e.dropdown][e.item]

\* C21: a run of handle_dropdown_interactions that finds an item changed to
\* the pressed state emits exactly one DropdownChanged event, carrying that
\* item's value, leaves the option list of every dropdown hidden and the
\* label of every main button equal to that value; a run that finds only
\* hovered or idle item changes emits no event, leaves every label as it was
\* and, unless a main button was pressed in the same run, every list as it
\* was.
C21_ItemPressSelects ==
  [][HandleDropdownInteractions =>
       /\ \A e \in PressedOf("item") :
            /\ ui'.triggers = ui.triggers \o <<ItemValue(e)>>
            /\ \A d \in DOMAIN ui.items :
                 /\ ui'.display[d] = "None"
                 /\ ui'.label[d] = ItemValue(e)
       /\ PressedOf("item") = {} =>
            /\ ui'.triggers = ui.triggers
            /\ ui'.label = ui.label
            /\ PressedOf("button") = {} => ui'.display = ui.display]_vars

\* the second option of the first of two dropdowns was pressed while both
\* lists were shown: one event is pending, both lists are hidden and both
\* buttons carry the option
C21_Witness ==
  /\ Len(ui.items) = 2
  /\ Item(1, 2) \in Interactive(ui.items)
  /\ ui.schedule = "Observers"
  /\ ui.interaction[Item(1, 2)] = "Pressed"
  /\ ui.triggers = <<"Option B">>
  /\ ui.beforeSelect = <<[d \in {1, 2} |-> "Flex"]>>
  /\ ui.display = [d \in {1, 2} |-> "None"]
  /\ ui.label = [d \in {1, 2} |-> "Option B"]

\* C22: every option list starts hidden; a run of
\* handle_dropdown_interactions that finds a main button changed to the
\* pressed state (and no item pressed) flips the list of every dropdown
\* between hidden and shown, so that a second press with no selection in
\* between restores the visibility the first one found; a run that finds
\* only hovered or idle button changes leaves every list as it was.
C22_ButtonPressToggles ==
  /\ \A d \in DOMAIN ui.items : ui.display[d] = "None"
  /\ [][(HandleDropdownInteractions /\ PressedOf("item") = {}) =>
          /\ PressedOf("button") # {} =>
               /\ \A d \in DOMAIN ui.items :
                    ui'.display[d] = (IF ui.display[d] = "None" THEN "Flex" ELSE "None")
               /\ ui.beforePress # NoPress => ui'.display = ui.beforePress[1]
          /\ PressedOf("button") = {} => ui'.display = ui.display]_vars

\* the first of two main buttons has been pressed a second time with no
\* selection ever made: both lists, shown before this press, are hidden
\* again as they were spawned
C22_Witness ==
  /\ Len(ui.items) = 2
  /\ ui.schedule = "PreUpdate"
  /\ ui.changed = {}
  /\ ui.interaction[Button(1)] = "Pressed"
  /\ ui.color[Button(1)] = "PRESSED_BUTTON"
  /\ ui.beforeSelect = NoPress
  /\ ui.beforePress = <<[d \in {1, 2} |-> "Flex"]>>
  /\ ui.display = [d \in {1, 2} |-> "None"]

====
